---- MODULE Spec2Model ----
(***************************************************************************)
(* A model of the report-statistics tooling of causal-trainer:             *)
(*   scripts/generate_report_stats.py  (calculate_stats, print_stats,      *)
(*                                      generate_latex_tables, main)       *)
(*   notebooks/dataset_analysis.py     (_load_questions, _norm_str,        *)
(*                                      _norm_difficulty, _get, and the    *)
(*                                      trap-type panels of main)          *)
(* SpecHandles follows both programs through each open, read and close.    *)
(* Python values are tagged records, Python strings are tuples of          *)
(* one-character strings, scores are held in tenths (80 is 8.0).           *)
(***************************************************************************)
EXTENDS Integers, Sequences, FiniteSets, TLC

VARIABLES
    pc,             \* position of the running program
    exc,            \* the exception that ended it, or "none"
    logical,        \* the logical records the input encodes
    shape,          \* the source shape the input is encoded in
    cases,          \* calculate_stats: its argument
    stats,          \* calculate_stats: its result
    db_cases,       \* main: the rows of the Question table
    export_cases,   \* main: the cases of the exported dataset
    unval_stats,    \* main: statistics of all the rows
    val_stats,      \* main: statistics of the rows with finalScore >= 8
    final_stats,    \* main: statistics of the exported cases
    out,            \* the count and percentage rows written so far
    verdict,        \* main: the outcome of the verification pass
    data_dir,       \* _load_questions: the files of the directory, by name
    all_questions,  \* _load_questions: the records loaded
    by_author,      \* _load_questions: the records of each author key
    author_counts,  \* main of dataset_analysis.py: the number of records of each key
    norm_in,        \* _norm_difficulty: its argument
    norm_out,       \* _norm_difficulty: its result
    norm_again,     \* _norm_difficulty applied to its own result
    trap_counts,    \* main of dataset_analysis.py: the Counter of trap types, in insertion order
    top_trap_types, \* main of dataset_analysis.py: the six most common trap types
    segments,       \* main of dataset_analysis.py: the bars drawn, one list of values per label
    bottoms,        \* main of dataset_analysis.py: the height of each author's stack
    handles,        \* the connections and files that are open
    pending         \* _load_questions: the files still to read, the one being read first

calcVars == <<logical, shape, cases, stats>>

statsVars == <<db_cases, export_cases, unval_stats, val_stats, final_stats, out, verdict>>

loadVars == <<data_dir, all_questions, by_author, author_counts>>

normVars == <<norm_in, norm_out, norm_again>>

trapVars == <<trap_counts, top_trap_types, segments, bottoms>>

ioVars == <<handles, pending>>

vars == <<pc, exc, calcVars, statsVars, loadVars, normVars, trapVars, ioVars>>

(***************************************************************************)
(* Bounds of the model.                                                    *)
(***************************************************************************)
MaxCases == 2

MaxDb == 2

MaxExport == 1

MaxQuestions == 1

MaxPad == 1

(***************************************************************************)
(* Python values.                                                          *)
(***************************************************************************)
None == [t |-> "none"]

Str(s) == [t |-> "str", v |-> s]

Num(n) == [t |-> "num", v |-> n]

Dict(f) == [t |-> "dict", v |-> f]

EmptyMap == [k \in {} |-> None]

\* bool(x): None, "", 0 and {} are false
Truthy(x) ==
    CASE x.t = "none" -> FALSE
      [] x.t = "str"  -> Len(x.v) > 0
      [] x.t = "num"  -> x.v # 0
      [] x.t = "dict" -> DOMAIN x.v # {}
      [] OTHER        -> TRUE

\* a or b
PyOr(a, b) == IF Truthy(a) THEN a ELSE b

\* d.get(key, default)
DictGetDefault(d, key, default) == IF key \in DOMAIN d THEN d[key] ELSE default

\* d.get(key)
DictGet(d, key) == DictGetDefault(d, key, None)

(***************************************************************************)
(* String literals of the sources, as tuples of characters.                *)
(***************************************************************************)
L1 == <<"L", "1">>

L2 == <<"L", "2">>

L3 == <<"L", "3">>

Easy == <<"E", "a", "s", "y">>

Medium == <<"M", "e", "d", "i", "u", "m">>

Hard == <<"H", "a", "r", "d">>

Unknown == <<"U", "n", "k", "n", "o", "w", "n">>

YES == <<"Y", "E", "S">>

NO == <<"N", "O">>

AMBIGUOUS == <<"A", "M", "B", "I", "G", "U", "O", "U", "S">>

VALID == <<"V", "A", "L", "I", "D">>

INVALID == <<"I", "N", "V", "A", "L", "I", "D">>

CONDITIONAL == <<"C", "O", "N", "D", "I", "T", "I", "O", "N", "A", "L">>

EmptyStr == <<>>

UNKNOWN == <<"U", "N", "K", "N", "O", "W", "N">>

Other == <<"O", "T", "H", "E", "R">>

(***************************************************************************)
(* defaultdict(int): a function whose domain is the keys touched so far.   *)
(***************************************************************************)
EmptyCounter == [k \in {} |-> 0]

\* counter[key] += 1
Inc(counter, key) ==
    IF key \in DOMAIN counter
    THEN [counter EXCEPT ![key] = @ + 1]
    ELSE [k \in (DOMAIN counter) \cup {key} |-> IF k = key THEN 1 ELSE counter[k]]

\* the value read by counter[key]
Read(counter, key) == IF key \in DOMAIN counter THEN counter[key] ELSE 0

RECURSIVE SumOver(_, _)
SumOver(counter, keys) ==
    IF keys = {} THEN 0
    ELSE LET k == CHOOSE k \in keys : TRUE
         IN counter[k] + SumOver(counter, keys \ {k})

\* sum(counter.values())
SumValues(counter) == SumOver(counter, DOMAIN counter)

(***************************************************************************)
(* calculate_stats                                                         *)
(***************************************************************************)
Raise(e) == [exc |-> e]

Return(v) == [exc |-> "none", val |-> v]

LevelKeys == {Str(L1), Str(L2), Str(L3)}

NewStats(n) ==
    [total |-> n,
     pearl_level |-> EmptyCounter,
     difficulty |-> EmptyCounter,
     label |-> EmptyCounter,
     trap_prefix |-> EmptyCounter,
     l1_labels |-> EmptyCounter,
     l2_labels |-> EmptyCounter,
     l3_labels |-> EmptyCounter,
     score_ranges |-> EmptyCounter,
     difficulty_by_level |-> [l \in LevelKeys |-> EmptyCounter]]

\* the five fields read from a dict-shaped case
DictFields(d) ==
    LET trap_obj == DictGetDefault(d, "trap", Dict(EmptyMap))
    IN [pearl |-> PyOr(DictGet(d, "pearlLevel"), DictGet(d, "pearl_level")),
        diff  |-> DictGet(d, "difficulty"),
        label |-> PyOr(DictGet(d, "groundTruth"), DictGet(d, "label")),
        trap  |-> PyOr(DictGet(d, "trapType"),
                       IF trap_obj.t = "dict"
                       THEN DictGetDefault(trap_obj.v, "type", Str(EmptyStr))
                       ELSE Str(EmptyStr)),
        score |-> PyOr(DictGet(d, "finalScore"), DictGet(d, "final_score"))]

\* the five fields read from a sqlite3.Row
RowFields(r) ==
    [pearl |-> r["pearlLevel"],
     diff  |-> r["difficulty"],
     label |-> r["groundTruth"],
     trap  |-> PyOr(r["trapType"], Str(EmptyStr)),
     score |-> r["finalScore"]]

CaseFields(case) ==
    IF case.shape = "dict" THEN DictFields(case.f) ELSE RowFields(case.f)

\* diff if diff in ['Easy', 'Medium', 'Hard'] else 'Unknown'
DiffNormalized(diff) ==
    IF diff \in {Str(Easy), Str(Medium), Str(Hard)} THEN diff ELSE Str(Unknown)

RECURSIVE BeforeColon(_)
BeforeColon(s) ==
    IF s = <<>> \/ Head(s) = ":" THEN <<>> ELSE <<Head(s)>> \o BeforeColon(Tail(s))

HasColon(s) == \E i \in 1..Len(s) : s[i] = ":"

\* trap.split(':')[0] if ':' in str(trap) else str(trap)[:2]
TrapPrefix(s) ==
    IF HasColon(s) THEN BeforeColon(s)
    ELSE SubSeq(s, 1, IF Len(s) < 2 THEN Len(s) ELSE 2)

\* the trap_prefix counter after one case
CountTrap(counter, trap) ==
    IF Truthy(trap) THEN Inc(counter, Str(TrapPrefix(trap.v))) ELSE counter

\* the score bucket of a score held in tenths
ScoreRange(score) ==
    IF score = 100 THEN "10.0"
    ELSE IF score >= 90 THEN "9.0-9.9"
    ELSE IF score >= 80 THEN "8.0-8.9"
    ELSE IF score >= 60 THEN "6.0-7.9"
    ELSE "<6.0"

\* the score_ranges counter after one case
CountScore(counter, score) ==
    IF score.t # "none" THEN Inc(counter, ScoreRange(score.v)) ELSE counter

\* a difficulty counter that leaves out the records without a known difficulty
CountDifficultyKnownOnly(counter, diff) ==
    IF diff \in {Str(Easy), Str(Medium), Str(Hard)} THEN Inc(counter, diff) ELSE counter

\* the difficulty counter after one case
CountDifficulty(counter, diff) == Inc(counter, DiffNormalized(diff))

\* a difficulty-by-level table that counts the record under every level
CountByLevelEveryLevel(by_level, pearl, dn) ==
    [l \in DOMAIN by_level |-> Inc(by_level[l], dn)]

\* stats['difficulty_by_level'][pearl][diff_normalized] += 1
CountByLevel(by_level, pearl, dn) == [by_level EXCEPT ![pearl] = Inc(@, dn)]

\* one iteration of the loop of calculate_stats
CountCase(st, case) ==
    LET fl == CaseFields(case)
        dn == DiffNormalized(fl.diff)
    IN IF fl.pearl \notin LevelKeys
       THEN Raise("KeyError")
       ELSE Return(
         [st EXCEPT
            !.pearl_level = Inc(@, fl.pearl),
            !.difficulty = CountDifficulty(@, fl.diff),
            !.difficulty_by_level = CountByLevel(@, fl.pearl, dn),
            !.label = Inc(@, fl.label),
            !.l1_labels = IF fl.pearl = Str(L1) THEN Inc(@, fl.label) ELSE @,
            !.l2_labels = IF fl.pearl = Str(L2) THEN Inc(@, fl.label) ELSE @,
            !.l3_labels = IF fl.pearl = Str(L3) THEN Inc(@, fl.label) ELSE @,
            !.trap_prefix = CountTrap(@, fl.trap),
            !.score_ranges = CountScore(@, fl.score)])

RECURSIVE CalcLoop(_, _, _)
CalcLoop(cs, i, st) ==
    IF i > Len(cs) THEN Return(st)
    ELSE LET r == CountCase(st, cs[i])
         IN IF r.exc # "none" THEN r ELSE CalcLoop(cs, i + 1, r.val)

calculate_stats(cs) == CalcLoop(cs, 1, NewStats(Len(cs)))

(***************************************************************************)
(* The record sets calculate_stats is given: logical records, and their    *)
(* encodings in the shapes of the store and of the export.                 *)
(***************************************************************************)
LogicalRecord(p, d, l, t, s) ==
    [pearlLevel |-> p, difficulty |-> d, groundTruth |-> l, trapType |-> t, finalScore |-> s]

PearlValues == {Str(L1), Str(L2), Str(L3), None}

DifficultyValues == {Str(Easy), Str(Medium), Str(<<"e", "a", "s", "y">>), None}

LabelValues == {Str(YES), Str(NO), Str(AMBIGUOUS), Str(EmptyStr), None}

TrapValues == {None, Str(EmptyStr), Str(<<"T", "1", ":", "R">>), Str(<<"S", "E", "L">>)}

ScoreValues == {None, Num(0), Num(59), Num(60), Num(80), Num(90), Num(99), Num(100)}

\* records that differ from a plain one in one group of fields
LogicalRecords ==
    {LogicalRecord(p, d, Str(NO), None, None) : p \in PearlValues, d \in DifficultyValues}
    \cup {LogicalRecord(Str(L1), Str(Easy), l, t, None) : l \in LabelValues, t \in TrapValues}
    \cup {LogicalRecord(Str(L2), Str(Hard), Str(YES), None, s) : s \in ScoreValues}

Columns == {"pearlLevel", "difficulty", "groundTruth", "trapType", "finalScore"}

Present(rec) == {k \in Columns : rec[k] # None}

\* a row of the Question table: every column, NULL as None
AsRow(rec) == [shape |-> "row", f |-> rec]

\* a dict with the store's keys, absent fields as None
AsStoreDict(rec) == [shape |-> "dict", f |-> rec]

\* a dict with the store's keys, absent fields left out
AsSparseDict(rec) == [shape |-> "dict", f |-> [k \in Present(rec) |-> rec[k]]]

ExportKeys(rec) ==
    {k \in {"pearl_level", "difficulty", "label", "trap", "final_score"} :
        CASE k = "pearl_level" -> rec.pearlLevel # None
          [] k = "difficulty"  -> rec.difficulty # None
          [] k = "label"       -> rec.groundTruth # None
          [] k = "trap"        -> rec.trapType # None
          [] OTHER             -> rec.finalScore # None}

\* a case of the exported dataset with the export's own keys
AsExportDict(rec) ==
    [shape |-> "dict",
     f |-> [k \in ExportKeys(rec) |->
              CASE k = "pearl_level" -> rec.pearlLevel
                [] k = "difficulty"  -> rec.difficulty
                [] k = "label"       -> rec.groundTruth
                [] k = "trap"        -> Dict([j \in {"type"} |-> rec.trapType])
                [] OTHER             -> rec.finalScore]]

Shapes == {"row", "store", "sparse", "export"}

Encode(sh, rec) ==
    CASE sh = "row"    -> AsRow(rec)
      [] sh = "store"  -> AsStoreDict(rec)
      [] sh = "sparse" -> AsSparseDict(rec)
      [] OTHER         -> AsExportDict(rec)

EncodeAll(sh, recs) == [i \in 1..Len(recs) |-> Encode(sh, recs[i])]

SeqsUpTo(S, n) == UNION {[1..k -> S] : k \in 0..n}

(***************************************************************************)
(* print_stats and generate_latex_tables.  A percentage count / total * 100 *)
(* is held exactly, as numerator and denominator.                          *)
(***************************************************************************)
Ratio(n, d) == [num |-> n, den |-> d]

\* count / total * 100 if total > 0 else 0
GuardedPct(count, total) == IF total > 0 THEN Ratio(count * 100, total) ELSE Ratio(0, 1)

Line(table, key, count, pct) == [table |-> table, key |-> key, count |-> count, pct |-> pct]

LevelOrder == <<L1, L2, L3>>

DiffOrder == <<Easy, Medium, Hard>>

RangeOrder == <<"10.0", "9.0-9.9", "8.0-8.9", "6.0-7.9", "<6.0">>

TouchAll(counter, keys) ==
    [k \in (DOMAIN counter) \cup keys |-> IF k \in DOMAIN counter THEN counter[k] ELSE 0]

StrKeys(names) == {Str(names[i]) : i \in 1..Len(names)}

\* the stats after print_stats has read them: each read of a defaultdict inserts its key
PrintTouched(st) ==
    [st EXCEPT
       !.pearl_level = TouchAll(@, StrKeys(LevelOrder)),
       !.difficulty = TouchAll(@, StrKeys(DiffOrder)),
       !.difficulty_by_level = [l \in DOMAIN @ |-> TouchAll(@[l], StrKeys(DiffOrder))],
       !.l1_labels = TouchAll(@, {Str(YES), Str(NO), Str(AMBIGUOUS)}),
       !.l2_labels = TouchAll(@, {Str(NO), Str(YES)}),
       !.l3_labels = TouchAll(@, {Str(VALID), Str(INVALID), Str(CONDITIONAL)}),
       !.score_ranges = IF DOMAIN @ # {}
                        THEN TouchAll(@, {RangeOrder[i] : i \in 1..Len(RangeOrder)})
                        ELSE @]

\* the count and percentage rows print_stats writes
PrintLines(st) ==
    [i \in 1..3 |->
        Line("pearl_level", LevelOrder[i], Read(st.pearl_level, Str(LevelOrder[i])),
             GuardedPct(Read(st.pearl_level, Str(LevelOrder[i])), st.total))]
    \o [i \in 1..3 |->
        Line("difficulty", DiffOrder[i], Read(st.difficulty, Str(DiffOrder[i])),
             GuardedPct(Read(st.difficulty, Str(DiffOrder[i])), st.total))]
    \o [i \in 1..9 |->
        LET level == LevelOrder[((i - 1) \div 3) + 1]
            diff == DiffOrder[((i - 1) % 3) + 1]
            level_total == Read(st.pearl_level, Str(level))
            count == Read(st.difficulty_by_level[Str(level)], Str(diff))
        IN Line("difficulty_by_level", <<level, diff>>, count, GuardedPct(count, level_total))]
    \o (IF DOMAIN st.score_ranges # {}
        THEN [i \in 1..5 |->
                Line("score_ranges", RangeOrder[i], Read(st.score_ranges, RangeOrder[i]),
                     GuardedPct(Read(st.score_ranges, RangeOrder[i]), st.total))]
        ELSE <<>>)

print_stats(st) == [stats |-> PrintTouched(st), lines |-> PrintLines(st)]

\* count / total * 100, as generate_latex_tables writes it
LatexPct(count, total) ==
    IF total = 0 THEN Raise("ZeroDivisionError") ELSE Return(Ratio(count * 100, total))

\* one column (count, percentage) of one row of a table of generate_latex_tables
LatexCell(table, stage, counter, key, total) ==
    LET p == LatexPct(Read(counter, Str(key)), total)
    IN IF p.exc # "none" THEN p
       ELSE Return(Line(table, <<stage, key>>, Read(counter, Str(key)), p.val))

\* the cells generate_latex_tables computes, in order: the pearl-level table divides by
\* the three totals, the difficulty table by the unvalidated and the validated total
LatexCells(u, v, f) ==
    [i \in 1..9 |->
        LET key == LevelOrder[((i - 1) \div 3) + 1]
            col == ((i - 1) % 3) + 1
        IN CASE col = 1 -> LatexCell("latex_pearl_level", "unval", u.pearl_level, key, u.total)
             [] col = 2 -> LatexCell("latex_pearl_level", "val", v.pearl_level, key, v.total)
             [] OTHER   -> LatexCell("latex_pearl_level", "final", f.pearl_level, key, f.total)]
    \o [i \in 1..6 |->
        LET key == DiffOrder[((i - 1) \div 2) + 1]
            col == ((i - 1) % 2) + 1
        IN CASE col = 1 -> LatexCell("latex_difficulty", "unval", u.difficulty, key, u.total)
             [] OTHER   -> LatexCell("latex_difficulty", "val", v.difficulty, key, v.total)]

\* the cells written before the first failing division, and whether one failed
generate_latex_tables(u, v, f) ==
    LET cells == LatexCells(u, v, f)
        bad == {i \in 1..Len(cells) : cells[i].exc # "none"}
        n == IF bad = {} THEN Len(cells)
             ELSE (CHOOSE i \in bad : \A j \in bad : i <= j) - 1
    IN [exc |-> IF bad = {} THEN "none" ELSE "ZeroDivisionError",
        lines |-> [i \in 1..n |-> cells[i].val]]

(***************************************************************************)
(* main of generate_report_stats.py                                        *)
(***************************************************************************)
\* the rows the Question table may hold
StoreRecords ==
    {LogicalRecord(p, d, Str(NO), None, None) :
        p \in {Str(L1), Str(L3), None}, d \in {Str(Easy), None}}
    \cup {LogicalRecord(Str(L2), Str(Hard), Str(YES), None, s) :
        s \in {Num(59), Num(70), Num(80), Num(100)}}

\* the cases the exported dataset may hold
ExportRecords ==
    {LogicalRecord(Str(L1), Str(Easy), Str(NO), Str(<<"T", "1", ":", "R">>), Num(90)),
     LogicalRecord(Str(L3), None, Str(YES), None, Num(100))}

ExportCases == {AsStoreDict(r) : r \in ExportRecords} \cup {AsExportDict(r) : r \in ExportRecords}

\* a filter that keeps every scored row, whatever its score
RECURSIVE ValidatedAnyScore(_)
ValidatedAnyScore(rows) ==
    IF rows = <<>> THEN <<>>
    ELSE LET c == Head(rows)
         IN (IF c.f["finalScore"].t = "num" THEN <<c>> ELSE <<>>)
            \o ValidatedAnyScore(Tail(rows))

\* [c for c in db_cases if c['finalScore'] is not None and c['finalScore'] >= 8]
RECURSIVE Validated(_)
Validated(rows) ==
    IF rows = <<>> THEN <<>>
    ELSE LET c == Head(rows)
         IN (IF c.f["finalScore"].t = "num" /\ c.f["finalScore"].v >= 80 THEN <<c>> ELSE <<>>)
            \o Validated(Tail(rows))

LoadIdle ==
    /\ data_dir = EmptyMap
    /\ all_questions = <<>>
    /\ by_author = EmptyMap
    /\ author_counts = EmptyMap

NormIdle == norm_in = None /\ norm_out = None /\ norm_again = None

TrapIdle ==
    /\ trap_counts = <<>>
    /\ top_trap_types = <<>>
    /\ segments = <<>>
    /\ bottoms = EmptyMap

IoIdle == handles = {} /\ pending = <<>>

CalcIdle == logical = <<>> /\ shape = "row" /\ cases = <<>> /\ stats = None

StatsIdle ==
    /\ db_cases = <<>>
    /\ export_cases = <<>>
    /\ unval_stats = None
    /\ val_stats = None
    /\ final_stats = None
    /\ out = <<>>
    /\ verdict = "none"

InitStats ==
    /\ pc = "start"
    /\ exc = "none"
    /\ StatsIdle
    /\ CalcIdle
    /\ LoadIdle
    /\ NormIdle
    /\ TrapIdle
    /\ IoIdle

\* get_db_stats: all the rows of the Question table
GetDbStats ==
    /\ pc = "start"
    /\ \E recs \in SeqsUpTo(StoreRecords, MaxDb) : db_cases' = EncodeAll("row", recs)
    /\ pc' = "db_read"
    /\ UNCHANGED <<exc, export_cases, unval_stats, val_stats, final_stats, out, verdict, calcVars, loadVars, normVars, trapVars, ioVars>>

\* get_export_stats: dataset['cases']
GetExportStats ==
    /\ pc = "db_read"
    /\ export_cases' \in SeqsUpTo(ExportCases, MaxExport)
    /\ pc' = "export_read"
    /\ UNCHANGED <<exc, db_cases, unval_stats, val_stats, final_stats, out, verdict, calcVars, loadVars, normVars, trapVars, ioVars>>

\* unval_stats = calculate_stats(db_cases, ...)
CalcUnvalidated ==
    /\ pc = "export_read"
    /\ LET r == calculate_stats(db_cases)
       IN /\ exc' = r.exc
          /\ unval_stats' = IF r.exc = "none" THEN r.val ELSE unval_stats
          /\ pc' = IF r.exc = "none" THEN "unval_done" ELSE "raised"
    /\ UNCHANGED <<db_cases, export_cases, val_stats, final_stats, out, verdict, calcVars, loadVars, normVars, trapVars, ioVars>>

\* val_stats = calculate_stats(validated_cases, ...)
CalcValidated ==
    /\ pc = "unval_done"
    /\ LET r == calculate_stats(Validated(db_cases))
       IN /\ exc' = r.exc
          /\ val_stats' = IF r.exc = "none" THEN r.val ELSE val_stats
          /\ pc' = IF r.exc = "none" THEN "val_done" ELSE "raised"
    /\ UNCHANGED <<db_cases, export_cases, unval_stats, final_stats, out, verdict, calcVars, loadVars, normVars, trapVars, ioVars>>

\* final_stats = calculate_stats(export_cases, ...)
CalcFinal ==
    /\ pc = "val_done"
    /\ LET r == calculate_stats(export_cases)
       IN /\ exc' = r.exc
          /\ final_stats' = IF r.exc = "none" THEN r.val ELSE final_stats
          /\ pc' = IF r.exc = "none" THEN "final_done" ELSE "raised"
    /\ UNCHANGED <<db_cases, export_cases, unval_stats, val_stats, out, verdict, calcVars, loadVars, normVars, trapVars, ioVars>>

\* print_stats(unval_stats, ...)
PrintUnvalidated ==
    /\ pc = "final_done"
    /\ unval_stats' = print_stats(unval_stats).stats
    /\ out' = out \o print_stats(unval_stats).lines
    /\ pc' = "unval_printed"
    /\ UNCHANGED <<exc, db_cases, export_cases, val_stats, final_stats, verdict, calcVars, loadVars, normVars, trapVars, ioVars>>

\* print_stats(val_stats, ...)
PrintValidated ==
    /\ pc = "unval_printed"
    /\ val_stats' = print_stats(val_stats).stats
    /\ out' = out \o print_stats(val_stats).lines
    /\ pc' = "val_printed"
    /\ UNCHANGED <<exc, db_cases, export_cases, unval_stats, final_stats, verdict, calcVars, loadVars, normVars, trapVars, ioVars>>

\* print_stats(final_stats, ...)
PrintFinal ==
    /\ pc = "val_printed"
    /\ final_stats' = print_stats(final_stats).stats
    /\ out' = out \o print_stats(final_stats).lines
    /\ pc' = "final_printed"
    /\ UNCHANGED <<exc, db_cases, export_cases, unval_stats, val_stats, verdict, calcVars, loadVars, normVars, trapVars, ioVars>>

\* the keys the cells computed by generate_latex_tables have read
LatexTouched(st, lines, stage) ==
    [st EXCEPT
       !.pearl_level = TouchAll(@, {Str(lines[i].key[2]) : i \in
            {j \in 1..Len(lines) : lines[j].table = "latex_pearl_level" /\ lines[j].key[1] = stage}}),
       !.difficulty = TouchAll(@, {Str(lines[i].key[2]) : i \in
            {j \in 1..Len(lines) : lines[j].table = "latex_difficulty" /\ lines[j].key[1] = stage}})]

\* generate_latex_tables(unval_stats, val_stats, final_stats)
GenerateLatexTables ==
    /\ pc = "final_printed"
    /\ LET r == generate_latex_tables(unval_stats, val_stats, final_stats)
       IN /\ exc' = r.exc
          /\ out' = out \o r.lines
          /\ unval_stats' = LatexTouched(unval_stats, r.lines, "unval")
          /\ val_stats' = LatexTouched(val_stats, r.lines, "val")
          /\ final_stats' = LatexTouched(final_stats, r.lines, "final")
          /\ pc' = IF r.exc = "none" THEN "tables_done" ELSE "raised"
    /\ UNCHANGED <<db_cases, export_cases, verdict, calcVars, loadVars, normVars, trapVars, ioVars>>

\* the verification pass at the end of main
Verification ==
    /\ pc = "tables_done"
    /\ verdict' = IF /\ unval_stats.total = SumValues(unval_stats.pearl_level)
                     /\ SumValues(unval_stats.pearl_level) = SumValues(unval_stats.difficulty)
                  THEN "consistent" ELSE "inconsistent"
    /\ pc' = "done"
    /\ UNCHANGED <<exc, db_cases, export_cases, unval_stats, val_stats, final_stats, out, calcVars, loadVars, normVars, trapVars, ioVars>>

NextStats ==
    \/ GetDbStats
    \/ GetExportStats
    \/ CalcUnvalidated
    \/ CalcValidated
    \/ CalcFinal
    \/ PrintUnvalidated
    \/ PrintValidated
    \/ PrintFinal
    \/ GenerateLatexTables
    \/ Verification

SpecStats == InitStats /\ [][NextStats]_vars

(***************************************************************************)
(* SpecCalc: calculate_stats on one record set.                            *)
(***************************************************************************)
InitCalc ==
    /\ pc = "start"
    /\ exc = "none"
    /\ logical \in SeqsUpTo(LogicalRecords, MaxCases)
    /\ shape \in Shapes
    /\ cases = EncodeAll(shape, logical)
    /\ stats = None
    /\ StatsIdle
    /\ LoadIdle
    /\ NormIdle
    /\ TrapIdle
    /\ IoIdle

CalculateStats ==
    /\ pc = "start"
    /\ LET r == calculate_stats(cases)
       IN /\ exc' = r.exc
          /\ stats' = IF r.exc = "none" THEN r.val ELSE None
          /\ pc' = IF r.exc = "none" THEN "calculated" ELSE "raised"
    /\ UNCHANGED <<logical, shape, cases, statsVars, loadVars, normVars, trapVars, ioVars>>

\* print_stats(stats, ...) on the result
PrintStats ==
    /\ pc = "calculated"
    /\ stats' = print_stats(stats).stats
    /\ out' = print_stats(stats).lines
    /\ pc' = "printed"
    /\ UNCHANGED <<exc, logical, shape, cases, db_cases, export_cases, unval_stats, val_stats, final_stats, verdict, loadVars, normVars, trapVars, ioVars>>

NextCalc ==
    \/ CalculateStats
    \/ PrintStats

SpecCalc == InitCalc /\ [][NextCalc]_vars

(***************************************************************************)
(* Strings: str.lower, the in operator on strings, the order sorted() uses. *)
(***************************************************************************)
UpperCase ==
    <<"A", "B", "C", "D", "E", "F", "G", "H", "I", "J", "K", "L", "M",
      "N", "O", "P", "Q", "R", "S", "T", "U", "V", "W", "X", "Y", "Z">>

LowerCase ==
    <<"a", "b", "c", "d", "e", "f", "g", "h", "i", "j", "k", "l", "m",
      "n", "o", "p", "q", "r", "s", "t", "u", "v", "w", "x", "y", "z">>

\* the characters of the model in the order of their code points
Ascii ==
    <<"\t", "\n", " ", "-", ".", "0", "1", "2", "3", "4", "5", "6", "7", "8", "9", ":", "@">>
    \o UpperCase \o <<"_">> \o LowerCase

OrdOf == [c \in {Ascii[i] : i \in 1..Len(Ascii)} |-> CHOOSE i \in 1..Len(Ascii) : Ascii[i] = c]

Ord(c) == OrdOf[c]

LowerOf == [c \in {UpperCase[i] : i \in 1..Len(UpperCase)} |->
              LowerCase[CHOOSE i \in 1..Len(UpperCase) : UpperCase[i] = c]]

LowerChar(c) == IF c \in DOMAIN LowerOf THEN LowerOf[c] ELSE c

\* s.lower()
Lower(s) == [i \in 1..Len(s) |-> LowerChar(s[i])]

\* sub in s
Contains(s, sub) ==
    \E i \in 0..(Len(s) - Len(sub)) : SubSeq(s, i + 1, i + Len(sub)) = sub

StartsWith(s, prefix) == Len(s) >= Len(prefix) /\ SubSeq(s, 1, Len(prefix)) = prefix

EndsWith(s, suffix) ==
    Len(s) >= Len(suffix) /\ SubSeq(s, Len(s) - Len(suffix) + 1, Len(s)) = suffix

\* a < b for two strings
RECURSIVE StrLess(_, _)
StrLess(a, b) ==
    IF b = <<>> THEN FALSE
    ELSE IF a = <<>> THEN TRUE
    ELSE IF Head(a) = Head(b) THEN StrLess(Tail(a), Tail(b))
    ELSE Ord(Head(a)) < Ord(Head(b))

\* sorted(names)
RECURSIVE Sorted(_)
Sorted(names) ==
    IF names = {} THEN <<>>
    ELSE LET m == CHOOSE n \in names : \A o \in names \ {n} : StrLess(n, o)
         IN <<m>> \o Sorted(names \ {m})

(***************************************************************************)
(* _load_questions                                                         *)
(***************************************************************************)
combined == <<"c", "o", "m", "b", "i", "n", "e", "d">>

DotJson == <<".", "j", "s", "o", "n">>

\* author_map, in the order of its items
author_map ==
    << <<<<"d", "e", "v", "e", "e", "n">>, <<"D", "e", "v", "e", "e", "n">>>>,
       <<<<"t", "h", "e", "o", "d", "o", "r", "e", "-", "w", "u">>,
         <<"T", "h", "e", "o", "d", "o", "r", "e">>>>,
       <<<<"t", "o", "n", "y">>, <<"T", "o", "n", "y">>>>,
       <<<<"j", "u", "l", "i">>, <<"J", "u", "l", "i">>>> >>

AtStanford == <<"@", "s", "t", "a", "n", "f", "o", "r", "d", ".", "e", "d", "u">>

email_to_name ==
    << <<<<"d", "e", "v", "e", "e", "n">> \o AtStanford, <<"D", "e", "v", "e", "e", "n">>>>,
       <<<<"w", "u", "t", "h", "e", "o", "d", "o">> \o AtStanford,
         <<"T", "h", "e", "o", "d", "o", "r", "e">>>>,
       <<<<"l", "g", "r", "e", "n", "0", "0", "7">> \o AtStanford, <<"T", "o", "n", "y">>>>,
       <<<<"j", "u", "l", "i", "h">> \o AtStanford, <<"J", "u", "l", "i">>>> >>

\* table.get(key, key)
Lookup(table, key) ==
    IF \E i \in 1..Len(table) : table[i][1] = key
    THEN table[CHOOSE i \in 1..Len(table) : table[i][1] = key][2]
    ELSE key

\* data_dir.glob("*.json")
JsonFiles(dir) == {n \in DOMAIN dir : EndsWith(n, DotJson)}

\* data_dir.glob("combined*.json")
CombinedGlob(dir) ==
    {n \in DOMAIN dir :
        Len(n) >= Len(combined) + Len(DotJson) /\ StartsWith(n, combined) /\ EndsWith(n, DotJson)}

\* a test for the combined file that forgets to lower the name
IsCombinedCaseSensitive(name) == Contains(name, combined)

\* "combined" in f.name.lower()
IsCombined(name) == Contains(Lower(name), combined)

\* data if isinstance(data, list) else data.get("questions", [])
QuestionsOf(data) ==
    IF data.kind = "list" THEN data.items ELSE DictGetDefault(data.f, "questions", <<>>)

\* by_author[key].extend(questions), by_author being a defaultdict(list)
Extend(by, key, questions) ==
    [k \in (DOMAIN by) \cup {key} |->
        (IF k \in DOMAIN by THEN by[k] ELSE <<>>) \o (IF k = key THEN questions ELSE <<>>)]

\* the entries of author_map whose key is in the lower-cased file name
MatchingAuthors(name) ==
    {i \in 1..Len(author_map) : Contains(Lower(name), author_map[i][1])}

\* an attribution that drops the files of no known author
AttributeKnownOnly(by, name, questions) ==
    IF MatchingAuthors(name) # {}
    THEN Extend(by, author_map[CHOOSE i \in MatchingAuthors(name) :
                                  \A j \in MatchingAuthors(name) : i <= j][2], questions)
    ELSE by

\* the attribution of the records of one file: the first matching entry of
\* author_map, else the file name
Attribute(by, name, questions) ==
    IF MatchingAuthors(name) # {}
    THEN Extend(by, author_map[CHOOSE i \in MatchingAuthors(name) :
                                  \A j \in MatchingAuthors(name) : i <= j][2], questions)
    ELSE Extend(by, name, questions)

\* one iteration of the primary pass
PrimaryStep(st, name, dir) ==
    IF IsCombined(name) THEN st
    ELSE LET questions == QuestionsOf(dir[name])
         IN [all |-> st.all \o questions, by |-> Attribute(st.by, name, questions)]

RECURSIVE PrimaryPass(_, _, _)
PrimaryPass(st, names, dir) ==
    IF names = <<>> THEN st
    ELSE PrimaryPass(PrimaryStep(st, Head(names), dir), Tail(names), dir)

\* the grouping of the records of the combined file by their author field
RECURSIVE GroupByAuthor(_, _)
GroupByAuthor(by, questions) ==
    IF questions = <<>> THEN by
    ELSE LET q == Head(questions)
             author_email == DictGetDefault(q, "author", Str(Unknown))
             author_name == Lookup(email_to_name, author_email.v)
         IN GroupByAuthor(Extend(by, author_name, <<q>>), Tail(questions))

\* the fallback: the records of combined_files[0], which have to be in an object
FallbackPass(st, dir, first) ==
    IF st.all # <<>> \/ CombinedGlob(dir) = {}
    THEN Return(st)
    ELSE IF dir[first].kind = "list"
    THEN Raise("AttributeError")
    ELSE LET questions == DictGetDefault(dir[first].f, "questions", <<>>)
         IN Return([all |-> st.all \o questions, by |-> GroupByAuthor(st.by, questions)])

\* _load_questions(data_dir); first is the file glob("combined*.json") lists first
_load_questions(dir, first) ==
    FallbackPass(PrimaryPass([all |-> <<>>, by |-> EmptyMap], Sorted(JsonFiles(dir)), dir),
                 dir, first)

(***************************************************************************)
(* The directories _load_questions is given.                               *)
(***************************************************************************)
\* a file name with two known authors: tony comes first in author_map, juli in the name
JuliTonyJson == <<"J", "u", "l", "i", "_", "t", "o", "n", "y">> \o DotJson

MiscJson == <<"m", "i", "s", "c">> \o DotJson

CombinedJson == combined \o DotJson

AllCombinedJson == <<"a", "l", "l", "_">> \o combined \o DotJson

CombinedUpperJson == <<"C", "o", "m", "b", "i", "n", "e", "d", "_", "V", "2">> \o DotJson

NotesTxt == <<"t", "o", "n", "y", ".", "t", "x", "t">>

FileNames == {JuliTonyJson, MiscJson, CombinedJson, AllCombinedJson, CombinedUpperJson, NotesTxt}

JuliEmail == <<"j", "u", "l", "i", "h">> \o AtStanford

\* the author identifiers a record of a combined file may carry; None: no author field
AuthorIds == {None, Str(JuliEmail), Str(<<"x", "@", "y">>)}

\* question i of the file name
Question(name, i, author) ==
    IF author = None
    THEN [k \in {"id"} |-> <<name, i>>]
    ELSE [k \in {"id", "author"} |-> IF k = "id" THEN <<name, i>> ELSE author]

QuestionLists(name) ==
    UNION {{[i \in 1..n |-> Question(name, i, a[i])] :
              a \in [1..n -> IF name = CombinedJson THEN AuthorIds ELSE {None}]} :
           n \in 0..MaxQuestions}

\* what json.load may return for a file: an array of questions, an object with a
\* questions field, an object without one.  The files that are no per-author file
\* and are not named combined*.json hold one record, in the shape of a combined file.
Contents(name) ==
    IF name \in {AllCombinedJson, CombinedUpperJson, NotesTxt}
    THEN {[kind |-> "dict", f |-> [k \in {"questions"} |-> <<Question(name, 1, Str(JuliEmail))>>]]}
    ELSE {[kind |-> "list", items |-> qs] : qs \in QuestionLists(name)}
         \cup {[kind |-> "dict", f |-> [k \in {"questions"} |-> qs]] : qs \in QuestionLists(name)}
         \cup {[kind |-> "dict", f |-> EmptyMap]}

\* the directory d with the file name added
WithFile(d, name, content) ==
    [n \in (DOMAIN d) \cup {name} |-> IF n = name THEN content ELSE d[n]]

RECURSIVE DirectoriesOver(_)
DirectoriesOver(names) ==
    IF names = {} THEN {EmptyMap}
    ELSE LET name == CHOOSE n \in names : TRUE
             rest == DirectoriesOver(names \ {name})
         IN rest \cup {WithFile(d, name, c) : d \in rest, c \in Contents(name)}

Directories == DirectoriesOver(FileNames)

(***************************************************************************)
(* The trap-type panels of main of dataset_analysis.py.  A Counter is the  *)
(* sequence of its keys in the order of their first insertion, each with   *)
(* its count.                                                              *)
(***************************************************************************)
\* the number of trap types of the bar chart of trap types
TopTrapsPlotted == 10

\* the number of trap types that get a segment of their own
TopTrapTypes == 6

\* _get(q, *path, default=default)
RECURSIVE _get(_, _, _)
_get(cur, path, default) ==
    IF path = <<>> THEN cur
    ELSE IF cur.t # "dict" \/ Head(path) \notin DOMAIN cur.v THEN default
    ELSE _get(cur.v[Head(path)], Tail(path), default)

\* counter[key] += 1 on a Counter
CounterAdd(c, key) ==
    IF \E i \in 1..Len(c) : c[i].key = key
    THEN [i \in 1..Len(c) |-> IF c[i].key = key THEN [c[i] EXCEPT !.n = @ + 1] ELSE c[i]]
    ELSE Append(c, [key |-> key, n |-> 1])

\* Counter(keys)
RECURSIVE CounterFrom(_, _)
CounterFrom(c, keys) ==
    IF keys = <<>> THEN c ELSE CounterFrom(CounterAdd(c, Head(keys)), Tail(keys))

\* c.most_common(n): by falling count, equal counts in the order of insertion
RECURSIVE MostCommon(_, _)
MostCommon(c, n) ==
    IF n = 0 \/ c = <<>> THEN <<>>
    ELSE LET i == CHOOSE i \in 1..Len(c) :
                     /\ \A j \in 1..Len(c) : c[j].n <= c[i].n
                     /\ \A j \in 1..(i - 1) : c[j].n < c[i].n
         IN <<c[i]>> \o MostCommon(SubSeq(c, 1, i - 1) \o SubSeq(c, i + 1, Len(c)), n - 1)

\* q.get("groundTruth") == "NO"
IsNo(q) == DictGet(q, "groundTruth") = Str(NO)

\* [q for q in questions if q.get("groundTruth") == "NO"]
NoCases(questions) == SelectSeq(questions, IsNo)

TrapPath == <<"annotations", "trapType">>

\* the number of the records qs the segment tt counts
SegmentCount(tt, top, qs) ==
    IF tt = Str(Other)
    THEN Cardinality({i \in 1..Len(qs) :
            \A j \in 1..Len(top) : _get(Dict(qs[i]), TrapPath, Str(UNKNOWN)) # top[j]})
    ELSE Cardinality({i \in 1..Len(qs) : _get(Dict(qs[i]), TrapPath, None) = tt})

\* the bars of the trap-type panel: for each of the top trap types and OTHER, the
\* count of each author
TrapSegments(top, by, authors) ==
    [i \in 1..(Len(top) + 1) |->
        LET tt == (top \o <<Str(Other)>>)[i]
        IN [label |-> tt, vals |-> [a \in authors |-> SegmentCount(tt, top, NoCases(by[a]))]]]

RECURSIVE SumSegments(_, _)
SumSegments(segs, a) ==
    IF segs = <<>> THEN 0 ELSE Head(segs).vals[a] + SumSegments(Tail(segs), a)

(***************************************************************************)
(* SpecLoad: _load_questions on one directory, and the count of the        *)
(* records of each author key in main.                                     *)
(***************************************************************************)
InitLoad ==
    /\ pc = "start"
    /\ exc = "none"
    /\ data_dir \in Directories
    /\ all_questions = <<>>
    /\ by_author = EmptyMap
    /\ author_counts = EmptyMap
    /\ CalcIdle
    /\ StatsIdle
    /\ NormIdle
    /\ TrapIdle
    /\ IoIdle

\* all_questions, by_author = _load_questions(data_dir)
LoadQuestions ==
    /\ pc = "start"
    /\ \E first \in (IF CombinedGlob(data_dir) = {} THEN {<<>>} ELSE CombinedGlob(data_dir)) :
          LET r == _load_questions(data_dir, first)
          IN /\ exc' = r.exc
             /\ all_questions' = IF r.exc = "none" THEN r.val.all ELSE all_questions
             /\ by_author' = IF r.exc = "none" THEN r.val.by ELSE by_author
             /\ pc' = IF r.exc = "none" THEN "loaded" ELSE "raised"
    /\ UNCHANGED <<data_dir, author_counts, calcVars, statsVars, normVars, trapVars, ioVars>>

\* the trap-type counter over the NO records, and the labels of its bar chart:
\* a key that is no string has no replace()
TrapCounts ==
    /\ pc = "loaded"
    /\ LET no_cases == NoCases(all_questions)
           counts == CounterFrom(<<>>, [i \in 1..Len(no_cases) |->
                                         _get(Dict(no_cases[i]), TrapPath, Str(UNKNOWN))])
           top_traps == MostCommon(counts, TopTrapsPlotted)
           bad == \E i \in 1..Len(top_traps) : top_traps[i].key.t # "str"
       IN /\ trap_counts' = counts
          /\ exc' = IF bad THEN "AttributeError" ELSE "none"
          /\ pc' = IF bad THEN "raised" ELSE "trap_counted"
    /\ UNCHANGED <<calcVars, statsVars, loadVars, normVars, top_trap_types, segments, bottoms, ioVars>>

\* author_counts = {k: len(v) for k, v in sorted(by_author.items())}
AuthorCounts ==
    /\ pc = "trap_counted"
    /\ author_counts' = [k \in DOMAIN by_author |-> Len(by_author[k])]
    /\ pc' = "counted"
    /\ UNCHANGED <<exc, data_dir, all_questions, by_author, calcVars, statsVars, normVars, trapVars, ioVars>>

\* the panel "Trap type by annotator (NO only)"
TrapByAnnotator ==
    /\ pc = "counted"
    /\ LET top == [i \in 1..Len(MostCommon(trap_counts, TopTrapTypes)) |->
                      MostCommon(trap_counts, TopTrapTypes)[i].key]
           segs == TrapSegments(top, by_author, DOMAIN author_counts)
       IN /\ top_trap_types' = top
          /\ segments' = segs
          /\ bottoms' = [a \in DOMAIN author_counts |-> SumSegments(segs, a)]
    /\ pc' = "trap_done"
    /\ UNCHANGED <<exc, trap_counts, calcVars, statsVars, loadVars, normVars, ioVars>>

NextLoad ==
    \/ LoadQuestions
    \/ TrapCounts
    \/ AuthorCounts

SpecLoad == InitLoad /\ [][NextLoad]_vars

(***************************************************************************)
(* SpecTrap: the trap-type panels of main on the records of three authors. *)
(***************************************************************************)
MaxTrapQs == 2

Deveen == <<"D", "e", "v", "e", "e", "n">>

Juli == <<"J", "u", "l", "i">>

Tony == <<"T", "o", "n", "y">>

\* a record with a ground truth and, unless ann is None, an annotations field
TrapQuestion(gt, ann) ==
    IF ann = None
    THEN [k \in {"groundTruth"} |-> gt]
    ELSE [k \in {"groundTruth", "annotations"} |-> IF k = "groundTruth" THEN gt ELSE ann]

WithTrapType(t) == Dict([k \in {"trapType"} |-> t])

\* the annotations of a record: none, none with a trapType, a trapType that is a
\* string or null
AnnotationValues ==
    {None, Dict(EmptyMap), WithTrapType(None),
     WithTrapType(Str(<<"T", "1">>)), WithTrapType(Str(<<"T", "2">>))}

TrapQuestions ==
    {TrapQuestion(Str(NO), a) : a \in AnnotationValues}
    \cup {TrapQuestion(Str(YES), WithTrapType(Str(<<"T", "1">>)))}

\* six NO records of six further trap types
SixOthers ==
    [i \in 1..6 |-> TrapQuestion(Str(NO), WithTrapType(Str(<<"S", <<"1", "2", "3", "4", "5", "6">>[i]>>)))]

\* the state after _load_questions has read one file of each of three authors
InitTrap ==
    /\ pc = "loaded"
    /\ exc = "none"
    /\ data_dir = EmptyMap
    /\ \E deveen \in {<<>>, SixOthers} :
       \E juli \in SeqsUpTo(TrapQuestions, MaxTrapQs) :
       \E tony \in SeqsUpTo(TrapQuestions, MaxTrapQs) :
          /\ all_questions = deveen \o juli \o tony
          /\ by_author = [a \in {Deveen, Juli, Tony} |->
                             CASE a = Deveen -> deveen
                               [] a = Juli   -> juli
                               [] OTHER      -> tony]
    /\ author_counts = EmptyMap
    /\ CalcIdle
    /\ StatsIdle
    /\ NormIdle
    /\ TrapIdle
    /\ IoIdle

NextTrap ==
    \/ TrapCounts
    \/ AuthorCounts
    \/ TrapByAnnotator

SpecTrap == InitTrap /\ [][NextTrap]_vars

(***************************************************************************)
(* SpecHandles: both programs with the connection and the files they open. *)
(* An open, a query or a read may fail; a with block closes its file on    *)
(* the way out, whether the block has failed or not.                       *)
(***************************************************************************)
\* conn = sqlite3.connect(DB_PATH)
DbConnect ==
    /\ pc = "start"
    /\ \E ok \in BOOLEAN :
          /\ handles' = IF ok THEN handles \cup {"conn"} ELSE handles
          /\ exc' = IF ok THEN exc ELSE "OperationalError"
          /\ pc' = IF ok THEN "db_connected" ELSE "raised"
    /\ UNCHANGED <<statsVars, calcVars, loadVars, normVars, trapVars, pending>>

\* cursor.execute('SELECT ... FROM Question'); all_cases = cursor.fetchall()
DbQuery ==
    /\ pc = "db_connected"
    /\ \E ok \in BOOLEAN :
       \E recs \in SeqsUpTo(StoreRecords, MaxDb) :
          /\ ok \/ recs = <<>>
          /\ db_cases' = IF ok THEN EncodeAll("row", recs) ELSE db_cases
          /\ exc' = IF ok THEN exc ELSE "OperationalError"
          /\ pc' = IF ok THEN "db_fetched" ELSE "raised"
    /\ UNCHANGED <<export_cases, unval_stats, val_stats, final_stats, out, verdict, handles, calcVars, loadVars, normVars, trapVars, pending>>

\* conn.close(); return all_cases
DbClose ==
    /\ pc = "db_fetched"
    /\ handles' = handles \ {"conn"}
    /\ pc' = "db_read"
    /\ UNCHANGED <<exc, statsVars, calcVars, loadVars, normVars, trapVars, pending>>

\* with open(DATASET_PATH) as f
ExportOpen ==
    /\ pc = "db_read"
    /\ \E ok \in BOOLEAN :
          /\ handles' = IF ok THEN handles \cup {"f"} ELSE handles
          /\ exc' = IF ok THEN exc ELSE "FileNotFoundError"
          /\ pc' = IF ok THEN "export_open" ELSE "raised"
    /\ UNCHANGED <<statsVars, calcVars, loadVars, normVars, trapVars, pending>>

\* dataset = json.load(f)
ExportLoad ==
    /\ pc = "export_open"
    /\ \E ok \in BOOLEAN :
       \E cs \in SeqsUpTo(ExportCases, MaxExport) :
          /\ ok \/ cs = <<>>
          /\ export_cases' = IF ok THEN cs ELSE export_cases
          /\ exc' = IF ok THEN exc ELSE "JSONDecodeError"
          /\ pc' = IF ok THEN "export_loaded" ELSE "export_failed"
    /\ UNCHANGED <<db_cases, unval_stats, val_stats, final_stats, out, verdict, handles, calcVars, loadVars, normVars, trapVars, pending>>

\* the end of the with block of get_export_stats; return dataset['cases']
ExportExit ==
    /\ pc \in {"export_loaded", "export_failed"}
    /\ handles' = handles \ {"f"}
    /\ pc' = IF pc = "export_loaded" THEN "export_read" ELSE "raised"
    /\ UNCHANGED <<exc, statsVars, calcVars, loadVars, normVars, trapVars, pending>>

\* sorted(data_dir.glob("*.json"))
LoadBegin ==
    /\ pc = "load_start"
    /\ pending' = Sorted(JsonFiles(data_dir))
    /\ pc' = "load_loop"
    /\ UNCHANGED <<exc, loadVars, handles, calcVars, statsVars, normVars, trapVars>>

\* if "combined" in f.name.lower(): continue
LoadSkipCombined ==
    /\ pc = "load_loop"
    /\ pending # <<>>
    /\ IsCombined(Head(pending))
    /\ pending' = Tail(pending)
    /\ UNCHANGED <<pc, exc, loadVars, handles, calcVars, statsVars, normVars, trapVars>>

\* with open(f) as file
LoadOpen ==
    /\ pc = "load_loop"
    /\ pending # <<>>
    /\ ~IsCombined(Head(pending))
    /\ \E ok \in BOOLEAN :
          /\ handles' = IF ok THEN handles \cup {"file"} ELSE handles
          /\ exc' = IF ok THEN exc ELSE "OSError"
          /\ pc' = IF ok THEN "load_open" ELSE "raised"
    /\ UNCHANGED <<loadVars, pending, calcVars, statsVars, normVars, trapVars>>

\* data = json.load(file)
LoadRead ==
    /\ pc = "load_open"
    /\ \E ok \in BOOLEAN :
          /\ exc' = IF ok THEN exc ELSE "JSONDecodeError"
          /\ pc' = IF ok THEN "load_read" ELSE "load_failed"
    /\ UNCHANGED <<loadVars, handles, pending, calcVars, statsVars, normVars, trapVars>>

\* the end of the with block of the primary pass, and the rest of the iteration
LoadExit ==
    /\ pc \in {"load_read", "load_failed"}
    /\ handles' = handles \ {"file"}
    /\ LET st == PrimaryStep([all |-> all_questions, by |-> by_author], Head(pending), data_dir)
       IN /\ all_questions' = IF pc = "load_read" THEN st.all ELSE all_questions
          /\ by_author' = IF pc = "load_read" THEN st.by ELSE by_author
    /\ pending' = IF pc = "load_read" THEN Tail(pending) ELSE pending
    /\ pc' = IF pc = "load_read" THEN "load_loop" ELSE "raised"
    /\ UNCHANGED <<exc, data_dir, author_counts, calcVars, statsVars, normVars, trapVars>>

\* the primary pass has loaded records, or there is no combined*.json: return
LoadReturn ==
    /\ pc = "load_loop"
    /\ pending = <<>>
    /\ all_questions # <<>> \/ CombinedGlob(data_dir) = {}
    /\ pc' = "loaded"
    /\ UNCHANGED <<exc, loadVars, ioVars, calcVars, statsVars, normVars, trapVars>>

\* with open(combined_files[0]) as file
FallbackOpen ==
    /\ pc = "load_loop"
    /\ pending = <<>>
    /\ all_questions = <<>>
    /\ \E first \in CombinedGlob(data_dir) :
       \E ok \in BOOLEAN :
          /\ handles' = IF ok THEN handles \cup {"file"} ELSE handles
          /\ pending' = IF ok THEN <<first>> ELSE pending
          /\ exc' = IF ok THEN exc ELSE "OSError"
          /\ pc' = IF ok THEN "fallback_open" ELSE "raised"
    /\ UNCHANGED <<loadVars, calcVars, statsVars, normVars, trapVars>>

\* data = json.load(file), in the fallback
FallbackRead ==
    /\ pc = "fallback_open"
    /\ \E ok \in BOOLEAN :
          /\ exc' = IF ok THEN exc ELSE "JSONDecodeError"
          /\ pc' = IF ok THEN "fallback_read" ELSE "fallback_failed"
    /\ UNCHANGED <<loadVars, handles, pending, calcVars, statsVars, normVars, trapVars>>

\* the end of the with block of the fallback, the grouping by author, and the return
FallbackExit ==
    /\ pc \in {"fallback_read", "fallback_failed"}
    /\ handles' = handles \ {"file"}
    /\ pending' = <<>>
    /\ LET r == FallbackPass([all |-> all_questions, by |-> by_author], data_dir, Head(pending))
           ok == pc = "fallback_read" /\ r.exc = "none"
       IN /\ all_questions' = IF ok THEN r.val.all ELSE all_questions
          /\ by_author' = IF ok THEN r.val.by ELSE by_author
          /\ exc' = IF pc = "fallback_read" THEN r.exc ELSE exc
          /\ pc' = IF ok THEN "loaded" ELSE "raised"
    /\ UNCHANGED <<data_dir, author_counts, calcVars, statsVars, normVars, trapVars>>

\* either program at its start: main of generate_report_stats.py, or _load_questions
\* on one directory
InitHandles ==
    /\ pc \in {"start", "load_start"}
    /\ exc = "none"
    /\ data_dir \in (IF pc = "start" THEN {EmptyMap} ELSE Directories)
    /\ all_questions = <<>>
    /\ by_author = EmptyMap
    /\ author_counts = EmptyMap
    /\ CalcIdle
    /\ StatsIdle
    /\ NormIdle
    /\ TrapIdle
    /\ IoIdle

NextHandles ==
    \/ DbConnect
    \/ DbQuery
    \/ DbClose
    \/ ExportOpen
    \/ ExportLoad
    \/ ExportExit
    \/ CalcUnvalidated
    \/ CalcValidated
    \/ CalcFinal
    \/ PrintUnvalidated
    \/ PrintValidated
    \/ PrintFinal
    \/ GenerateLatexTables
    \/ Verification
    \/ LoadBegin
    \/ LoadSkipCombined
    \/ LoadOpen
    \/ LoadRead
    \/ LoadExit
    \/ LoadReturn
    \/ FallbackOpen
    \/ FallbackRead
    \/ FallbackExit

SpecHandles == InitHandles /\ [][NextHandles]_vars

(***************************************************************************)
(* _norm_str and _norm_difficulty                                          *)
(***************************************************************************)
Bool(b) == [t |-> "bool", v |-> b]

Whitespace == {" ", "\t", "\n"}

DigitChars == <<"0", "1", "2", "3", "4", "5", "6", "7", "8", "9">>

RECURSIVE DigitsOf(_)
DigitsOf(n) ==
    IF n < 10 THEN <<DigitChars[n + 1]>>
    ELSE DigitsOf(n \div 10) \o <<DigitChars[(n % 10) + 1]>>

\* str(x) for a value that is not None
PyStr(x) ==
    CASE x.t = "str"  -> x.v
      [] x.t = "num"  -> DigitsOf(x.v)
      [] x.t = "bool" -> IF x.v THEN <<"T", "r", "u", "e">> ELSE <<"F", "a", "l", "s", "e">>
      [] OTHER        -> <<"N", "o", "n", "e">>

RECURSIVE LStrip(_)
LStrip(s) == IF s = <<>> \/ Head(s) \notin Whitespace THEN s ELSE LStrip(Tail(s))

RECURSIVE RStrip(_)
RStrip(s) ==
    IF s = <<>> \/ s[Len(s)] \notin Whitespace THEN s ELSE RStrip(SubSeq(s, 1, Len(s) - 1))

\* s.strip()
Strip(s) == RStrip(LStrip(s))

\* a _norm_str that does not strip
_norm_str_unstripped(x) == IF x.t = "none" THEN <<>> ELSE PyStr(x)

\* _norm_str(x), as a tuple of characters
_norm_str(x) == IF x.t = "none" THEN <<>> ELSE Strip(PyStr(x))

easy == <<"e", "a", "s", "y">>

medium == <<"m", "e", "d", "i", "u", "m">>

hard == <<"h", "a", "r", "d">>

EASY == <<"E", "A", "S", "Y">>

MEDIUM == <<"M", "E", "D", "I", "U", "M">>

HARD == <<"H", "A", "R", "D">>

_norm_difficulty(x) ==
    LET s == Lower(_norm_str(x))
    IN IF s \in {easy, <<"e">>} THEN Str(EASY)
       ELSE IF s \in {medium, <<"m", "e", "d">>, <<"m">>} THEN Str(MEDIUM)
       ELSE IF s \in {hard, <<"h">>} THEN Str(HARD)
       ELSE Str(UNKNOWN)

(***************************************************************************)
(* The values _norm_difficulty is given: None, numbers, booleans, and      *)
(* words in four casings between runs of whitespace.                       *)
(***************************************************************************)
UpperOf == [c \in {LowerCase[i] : i \in 1..Len(LowerCase)} |->
              UpperCase[CHOOSE i \in 1..Len(LowerCase) : LowerCase[i] = c]]

UpperChar(c) == IF c \in DOMAIN UpperOf THEN UpperOf[c] ELSE c

Casings == {"lower", "upper", "capitalized", "alternating"}

Cased(casing, w) ==
    [i \in 1..Len(w) |->
        CASE casing = "lower"       -> w[i]
          [] casing = "upper"       -> UpperChar(w[i])
          [] casing = "capitalized" -> IF i = 1 THEN UpperChar(w[i]) ELSE w[i]
          [] OTHER                  -> IF i % 2 = 0 THEN UpperChar(w[i]) ELSE w[i]]

Pads == SeqsUpTo(Whitespace, MaxPad)

EasyWords == {easy, <<"e">>}

MediumWords == {medium, <<"m", "e", "d">>, <<"m">>}

HardWords == {hard, <<"h">>}

OtherWords ==
    {<<>>, <<"e", "z">>, <<"h", "a", "r", "d", "e", "r">>, <<"e", " ", "m">>,
     <<"u", "n", "k", "n", "o", "w", "n">>, <<"m", "e", "d", "i", "u", "m", "s">>, <<"1">>}

Variants(words) ==
    {Str(l \o Cased(c, w) \o r) : l \in Pads, r \in Pads, c \in Casings, w \in words}

NormInputs ==
    {None, Num(0), Num(1), Num(27), Bool(TRUE), Bool(FALSE)}
    \cup Variants(EasyWords \cup MediumWords \cup HardWords \cup OtherWords)

(***************************************************************************)
(* SpecNorm: _norm_difficulty on one value, and again on its result.       *)
(***************************************************************************)
InitNorm ==
    /\ pc = "start"
    /\ exc = "none"
    /\ norm_in \in NormInputs
    /\ norm_out = None
    /\ norm_again = None
    /\ CalcIdle
    /\ StatsIdle
    /\ LoadIdle
    /\ TrapIdle
    /\ IoIdle

\* _norm_difficulty(x)
NormDifficulty ==
    /\ pc = "start"
    /\ norm_out' = _norm_difficulty(norm_in)
    /\ pc' = "normalized"
    /\ UNCHANGED <<exc, norm_in, norm_again, calcVars, statsVars, loadVars, trapVars, ioVars>>

\* _norm_difficulty(_norm_difficulty(x))
NormDifficultyAgain ==
    /\ pc = "normalized"
    /\ norm_again' = _norm_difficulty(norm_out)
    /\ pc' = "renormalized"
    /\ UNCHANGED <<exc, norm_in, norm_out, calcVars, statsVars, loadVars, trapVars, ioVars>>

NextNorm == NormDifficulty \/ NormDifficultyAgain

SpecNorm == InitNorm /\ [][NextNorm]_vars

(***************************************************************************)
(* Properties of calculate_stats and of main.                              *)
(***************************************************************************)
\* the positions of the logical records that satisfy a condition
YesOrAmbiguousRecords ==
    {i \in 1..Len(logical) : logical[i].groundTruth \in {Str(YES), Str(AMBIGUOUS)}}

ScoredRecords == {i \in 1..Len(logical) : logical[i].finalScore # None}

\* the range that contains a score held in tenths
RangeOf(score) ==
    CASE score = 100                -> "10.0"
      [] score >= 90 /\ score < 100 -> "9.0-9.9"
      [] score >= 80 /\ score < 90  -> "8.0-8.9"
      [] score >= 60 /\ score < 80  -> "6.0-7.9"
      [] OTHER                      -> "<6.0"

\* C1: whenever calculate_stats has returned the statistics of the unvalidated stage,
\* the per-pearl-level counts and the per-difficulty counts (Unknown included) each sum
\* to the total, also after print_stats and generate_latex_tables have read the
\* counters, so that the verification pass of main reports consistent totals.
C1_PartitionSums ==
    /\ unval_stats # None =>
          /\ SumValues(unval_stats.pearl_level) = unval_stats.total
          /\ SumValues(unval_stats.difficulty) = unval_stats.total
    /\ pc = "done" => verdict = "consistent"

\* C1 is reached: the verification pass has run over at least two rows, one of them
\* counted as Unknown, after the reads have inserted zero-valued keys.
C1_Witness ==
    /\ pc = "done"
    /\ unval_stats.total >= 2
    /\ Read(unval_stats.difficulty, Str(Unknown)) >= 1
    /\ \E k \in DOMAIN unval_stats.pearl_level : unval_stats.pearl_level[k] = 0

\* C2: calculate_stats completes on every record set whose records lack any of their
\* optional fields, an absent difficulty being counted as Unknown and an absent score
\* being left out of the score ranges.
C2_CompletesOnAbsentFields ==
    /\ pc # "start" => exc = "none"
    /\ pc = "calculated" =>
          /\ SumValues(stats.difficulty) = Len(cases)
          /\ SumValues(stats.score_ranges) <= Cardinality(ScoredRecords)

\* C3: no percentage of print_stats or generate_latex_tables fails on a total of
\* zero: no stage being empty ends the run with a division failure, and every
\* percentage written has a non-zero denominator.
C3_ZeroTotalYieldsZero ==
    /\ exc # "ZeroDivisionError"
    /\ \A i \in 1..Len(out) : out[i].pct.den # 0

\* C4: no record whose groundTruth is YES or AMBIGUOUS contributes to the trap-type
\* counts of calculate_stats: they sum to at most the number of the other records
\* (the claim's bound, the number of NO records, is at most that).
C4_TrapCountsOnlyNo ==
    pc = "calculated" =>
       SumValues(stats.trap_prefix) <= Len(logical) - Cardinality(YesOrAmbiguousRecords)

\* C5: every record with a non-absent finalScore increments exactly the score range
\* that contains its score, so the ranges sum to the number of scored records.
C5_ScoreBucketsExhaustive ==
    pc = "calculated" =>
       /\ \A b \in {RangeOrder[i] : i \in 1..Len(RangeOrder)} :
             Read(stats.score_ranges, b) =
                Cardinality({i \in ScoredRecords : RangeOf(logical[i].finalScore.v) = b})
       /\ SumValues(stats.score_ranges) = Cardinality(ScoredRecords)

\* C10: a record set makes the same contributions to every counter (or fails alike)
\* whether it is given as store rows, as dicts with the store's keys or as dicts with
\* the export's keys.
C10_ShapesAgree ==
    pc \in {"calculated", "raised"} =>
       LET r == calculate_stats(EncodeAll("row", logical))
       IN /\ exc = r.exc
          /\ exc = "none" => stats = r.val

\* every count of a stats value is between 0 and the total it is divided by
CountsWithinTotals(st) ==
    /\ \A k \in DOMAIN st.pearl_level : 0 <= st.pearl_level[k] /\ st.pearl_level[k] <= st.total
    /\ \A k \in DOMAIN st.difficulty : 0 <= st.difficulty[k] /\ st.difficulty[k] <= st.total
    /\ \A k \in DOMAIN st.score_ranges : 0 <= st.score_ranges[k] /\ st.score_ranges[k] <= st.total
    /\ \A l \in DOMAIN st.difficulty_by_level : \A k \in DOMAIN st.difficulty_by_level[l] :
          /\ 0 <= st.difficulty_by_level[l][k]
          /\ st.difficulty_by_level[l][k] <= Read(st.pearl_level, l)

\* a percentage held as a ratio lies in [0, 100]
InPercentRange(pct) == pct.den > 0 /\ 0 <= pct.num /\ pct.num <= 100 * pct.den

\* C11: in every stats value of calculate_stats each pearl-level, difficulty and
\* score-range count is between 0 and the total, each difficulty-by-level count is
\* between 0 and its level's count, and every percentage print_stats derives from
\* them lies in [0, 100].
C11_PercentagesBounded ==
    /\ pc \in {"calculated", "printed"} => CountsWithinTotals(stats)
    /\ pc = "printed" =>
          \A i \in 1..Len(out) : InPercentRange(out[i].pct)

\* print_stats has derived a difficulty-by-level percentage strictly between 0 and 100
\* next to a pearl-level percentage of 100
C11_Witness ==
    /\ pc = "printed"
    /\ \E i \in 1..Len(out) :
          /\ out[i].table = "difficulty_by_level"
          /\ 0 < out[i].pct.num /\ out[i].pct.num < 100 * out[i].pct.den
    /\ \E i \in 1..Len(out) :
          out[i].table = "pearl_level" /\ out[i].pct.num = 100 * out[i].pct.den

\* the store rows whose finalScore is present and at least 8
HighScoreRows ==
    {i \in 1..Len(db_cases) :
        db_cases[i].f["finalScore"].t = "num" /\ db_cases[i].f["finalScore"].v >= 80}

\* every count of counter v is at most the count of the same key in counter u
CountsAtMost(v, u) == \A k \in DOMAIN v : v[k] <= Read(u, k)

\* C12: the validated statistics are those of exactly the store rows whose finalScore
\* is present and >= 8: the validated total and every validated pearl-level,
\* difficulty, label and score-range count is at most the unvalidated one, and the
\* validated '6.0-7.9' and '<6.0' ranges are 0.
C12_ValidatedIsSubset ==
    val_stats # None =>
       /\ val_stats.total = Cardinality(HighScoreRows)
       /\ val_stats.total <= unval_stats.total
       /\ CountsAtMost(val_stats.pearl_level, unval_stats.pearl_level)
       /\ CountsAtMost(val_stats.difficulty, unval_stats.difficulty)
       /\ CountsAtMost(val_stats.label, unval_stats.label)
       /\ CountsAtMost(val_stats.score_ranges, unval_stats.score_ranges)
       /\ Read(val_stats.score_ranges, "6.0-7.9") = 0
       /\ Read(val_stats.score_ranges, "<6.0") = 0

\* the filter has kept one row and dropped a row scored between 6 and 8
C12_Witness ==
    /\ val_stats # None
    /\ val_stats.total = 1
    /\ unval_stats.total = 2
    /\ Read(unval_stats.score_ranges, "6.0-7.9") = 1
    /\ SumValues(val_stats.score_ranges) = 1

(***************************************************************************)
(* Properties of _load_questions.                                          *)
(***************************************************************************)
\* the files of the model whose name contains "combined" in some casing
CombinedNames == {CombinedJson, AllCombinedJson, CombinedUpperJson}

\* the per-author files of the model, and the author key each is expected under
\* (the first entry of author_map that occurs in the name, else the name)
PerAuthorNames == {JuliTonyJson, MiscJson}

ExpectedKey(name) == IF name = JuliTonyJson THEN <<"T", "o", "n", "y">> ELSE name

\* the file a loaded record was read from
FromFile(q) == q["id"][1]

Elements(seq) == {seq[i] : i \in 1..Len(seq)}

RECURSIVE SumLens(_, _)
SumLens(by, keys) ==
    IF keys = {} THEN 0
    ELSE LET k == CHOOSE k \in keys : TRUE
         IN Len(by[k]) + SumLens(by, keys \ {k})

WithoutCombined(dir) == [n \in (DOMAIN dir) \ CombinedNames |-> dir[n]]

PerAuthorRecords(dir) ==
    UNION {Elements(QuestionsOf(dir[n])) : n \in (DOMAIN dir) \cap PerAuthorNames}

\* C6: when the directory holds per-author files with at least one record next to a
\* combined file (in any casing), _load_questions returns as many records as it
\* returns for the per-author files alone, and no record of a combined file is in
\* all_questions or in the list of any author.
C6_NoDoubleCount ==
    (/\ pc # "start"
     /\ (DOMAIN data_dir) \cap CombinedNames # {}
     /\ PerAuthorRecords(data_dir) # {})
    => /\ exc = "none"
       /\ Len(all_questions) = Len(_load_questions(WithoutCombined(data_dir), <<>>).val.all)
       /\ \A q \in Elements(all_questions) : FromFile(q) \notin CombinedNames
       /\ \A k \in DOMAIN by_author :
             \A q \in Elements(by_author[k]) : FromFile(q) \notin CombinedNames

\* C6 is reached: two per-author records were loaded from a directory that also holds
\* a non-empty combined.json and a combined file whose name is not in lower case.
C6_Witness ==
    /\ pc = "loaded"
    /\ {CombinedJson, CombinedUpperJson} \subseteq DOMAIN data_dir
    /\ QuestionsOf(data_dir[CombinedJson]) # <<>>
    /\ Len(all_questions) >= 2

\* C7: whenever the primary pass yields no record and the directory holds a file
\* whose name contains "combined", with its records in a questions field, the loader
\* returns exactly the records of such a file, each record that carries an author
\* identifier under the display name of the identifier, or under the identifier
\* itself when the table does not know it.
C7_FallbackReturnsCombined ==
    LET found == {n \in JsonFiles(data_dir) :
                    Contains(n, combined) /\ data_dir[n].kind = "dict"}
    IN (pc # "start" /\ PerAuthorRecords(data_dir) = {} /\ found # {})
       => /\ exc = "none"
          /\ \E n \in found :
                /\ all_questions = QuestionsOf(data_dir[n])
                /\ \A q \in Elements(all_questions) :
                      "author" \in DOMAIN q =>
                         LET key == IF q["author"] = Str(JuliEmail)
                                    THEN <<"J", "u", "l", "i">> ELSE q["author"].v
                         IN key \in DOMAIN by_author /\ q \in Elements(by_author[key])

\* C9: after loading, the lists of the authors hold as many records as all_questions,
\* and every record of a per-author file is in the list of exactly one author key:
\* the display name of the first known author in the lower-cased file name, else the
\* file name; the counts main takes of the lists sum to the same number.
C9_AuthorAttribution ==
    /\ pc \in {"loaded", "counted"} =>
          /\ SumLens(by_author, DOMAIN by_author) = Len(all_questions)
          /\ \A n \in (DOMAIN data_dir) \cap PerAuthorNames :
                \A q \in Elements(QuestionsOf(data_dir[n])) :
                   \A k \in (DOMAIN by_author) \cup {ExpectedKey(n)} :
                      (k \in DOMAIN by_author /\ q \in Elements(by_author[k]))
                         <=> k = ExpectedKey(n)
    /\ pc = "counted" => SumValues(author_counts) = Len(all_questions)

\* C9 is reached: records of a file of a known author and of a file of no known
\* author were loaded and counted.
C9_Witness ==
    /\ pc = "counted"
    /\ MiscJson \in DOMAIN author_counts
    /\ author_counts[MiscJson] >= 1
    /\ <<"T", "o", "n", "y">> \in DOMAIN author_counts
    /\ author_counts[<<"T", "o", "n", "y">>] >= 1

(***************************************************************************)
(* Properties of _norm_difficulty.                                         *)
(***************************************************************************)
\* the level of a value by the table of synonyms: a synonym in any casing between
\* whitespace has its level, every other value is unknown
LevelOf(x) ==
    IF x \in Variants(EasyWords) THEN EASY
    ELSE IF x \in Variants(MediumWords) THEN MEDIUM
    ELSE IF x \in Variants(HardWords) THEN HARD
    ELSE UNKNOWN

\* C8: _norm_difficulty never raises and returns EASY, MEDIUM, HARD or UNKNOWN for
\* every value: the level of a synonym in any casing and between any whitespace,
\* UNKNOWN for everything else (None and values that are no strings included); and
\* applied to its own result it returns that result.
C8_NormTotalIdempotent ==
    /\ exc = "none"
    /\ pc \in {"normalized", "renormalized"} =>
          /\ norm_out \in {Str(EASY), Str(MEDIUM), Str(HARD), Str(UNKNOWN)}
          /\ norm_out = Str(LevelOf(norm_in))
    /\ pc = "renormalized" => norm_again = norm_out

\* C8 is reached: a synonym in mixed casing between whitespace was normalised to its
\* level, and the level was normalised again.
C8_Witness ==
    /\ pc = "renormalized"
    /\ norm_in.t = "str"
    /\ Len(norm_in.v) > Len(hard)
    /\ Head(norm_in.v) \in Whitespace
    /\ norm_in.v # Lower(norm_in.v)
    /\ norm_out = Str(HARD)

(***************************************************************************)
(* Properties of the trap-type panel.                                      *)
(***************************************************************************)
\* C13: in the trap-type-by-annotator panel the segments of each author (the top
\* trap types and OTHER) sum to the number of the author's records with groundTruth
\* NO, the records without a trapType included.
C13_SegmentsCoverNoRecords ==
    pc = "trap_done" =>
       \A a \in DOMAIN by_author : bottoms[a] = Len(NoCases(by_author[a]))

(***************************************************************************)
(* Properties of the handles.                                              *)
(***************************************************************************)
\* the positions at which get_db_stats, get_export_stats or _load_questions has
\* returned or an error has left the program, and those of aggregation and reporting
AfterIo ==
    {"raised", "db_read", "export_read", "unval_done", "val_done", "final_done",
     "unval_printed", "val_printed", "final_printed", "tables_done", "done", "loaded"}

\* C15: at most one connection or file is open at any time, and none is open once
\* get_db_stats, get_export_stats or _load_questions has returned or its error has
\* propagated, so none is open while calculate_stats, print_stats or
\* generate_latex_tables runs.
C15_HandlesScoped ==
    /\ Cardinality(handles) <= 1
    /\ pc \in AfterIo => handles = {}

(***************************************************************************)
(* calculate_stats against _norm_difficulty.                               *)
(***************************************************************************)
\* the records of the input whose difficulty _norm_difficulty gives the level
NormalizedTo(level) ==
    {i \in 1..Len(logical) : _norm_difficulty(logical[i].difficulty) = Str(level)}

\* C14: calculate_stats counts each record's difficulty under the level that
\* _norm_difficulty gives it: Easy, Medium and Hard hold the records normalised to
\* EASY, MEDIUM and HARD, and Unknown holds only the records normalised to UNKNOWN.
C14_DifficultyAgreesWithNormalizer ==
    pc = "calculated" =>
       /\ Read(stats.difficulty, Str(Easy)) = Cardinality(NormalizedTo(EASY))
       /\ Read(stats.difficulty, Str(Medium)) = Cardinality(NormalizedTo(MEDIUM))
       /\ Read(stats.difficulty, Str(Hard)) = Cardinality(NormalizedTo(HARD))
       /\ Read(stats.difficulty, Str(Unknown)) = Cardinality(NormalizedTo(UNKNOWN))

====
